---- MODULE Spec2Model ----
(***************************************************************************)
(* Model of the aurora-engine contract entry points (src/src/lib.rs) and   *)
(* of the storage key codec (src/src/storage.rs).                          *)
(*                                                                         *)
(* One host invocation is one action.  A panic (sdk::panic_utf8) aborts    *)
(* the invocation and the host discards every write of that invocation,   *)
(* so a rejected invocation leaves the store as it was and only the        *)
(* observer record `last` tells what happened.                             *)
(***************************************************************************)
EXTENDS Integers, Sequences, FiniteSets, TLC

\* ------------------------------------------------------------------------
\* Bounds of the model
\* ------------------------------------------------------------------------
\* largest value of the (scaled-down) u64 type; arithmetic is modulo MaxU64+1
MaxU64 == 3
\* number of distinct code blobs an owner may stage
MaxBlob == 2
\* largest account nonce the model lets an account reach
MaxNonce == 1
\* largest balance / transferred value
MaxBalance == 1
\* longest genesis allocation list given to begin_chain
MaxAlloc == 1
\* longest byte string given to bytes_to_key
MaxBytes == 2

\* ------------------------------------------------------------------------
\* Option<T>
\* ------------------------------------------------------------------------
None == << >>
Some(v) == << v >>
IsSome(o) == o # << >>
Unwrap(o) == o[1]

\* ------------------------------------------------------------------------
\* Domains of the inputs
\* ------------------------------------------------------------------------
\* host account ids that can be the predecessor of an invocation
AccountIds == {"alice", "bob"}
\* owner_id values of NewCallArgs (the empty string is a legal argument)
OwnerIds == {""} \cup AccountIds
\* u64 values
U64 == 0 .. MaxU64
\* code blobs given to stage_upgrade; blob 0 is the code deployed at first
CodeBlobs == 1 .. MaxBlob
\* EVM addresses
Addresses == {"a1", "a2"}

\* U256::from(u64): the 32 big-endian bytes of the value (the model's u64
\* values fit in the last byte)
U256FromU64(n) == [i \in 1 .. 32 |-> IF i = 32 THEN n % 256 ELSE 0]
\* U256::from([u8; 32]): the array read as a big-endian number, kept as its
\* 32 bytes
U256FromBytes(b) == b
\* chain_id values of NewCallArgs / BeginChainArgs: [u8; 32]
ChainIds ==
    { U256FromU64(1),
      [i \in 1 .. 32 |-> IF i = 24 THEN 1 ELSE IF i = 32 THEN 1 ELSE 0] }

VARIABLES
    state,          \* EngineState stored under the Config key
    staged_code,    \* Option: blob stored under CODE_KEY
    staged_index,   \* Option: u64 stored under CODE_STAGE_KEY
    contract_code,  \* code the host runs for the contract account
    block_index,    \* host block index of the next invocation
    nonces,         \* EVM account nonces
    balances,       \* EVM account balances
    codes,          \* EVM addresses that hold code
    storages,       \* EVM addresses that hold a non-zero storage slot
    encoded,        \* the last two keys the codec produced, with their inputs
    announced,      \* observer: the last staging that succeeded (Option)
    watch,          \* observer: a signed transaction to follow (Option)
    watch_done,     \* observer: the followed transaction has succeeded
    last            \* observer: the last invocation and its outcome

store == << state, staged_code, staged_index, nonces, balances, codes, storages >>
host == << contract_code, block_index >>
observer == << watch, watch_done, encoded, announced >>
vars == << state, staged_code, staged_index, contract_code, block_index,
           nonces, balances, codes, storages, encoded, announced, watch,
           watch_done, last >>

\* EngineState::default(): what Engine::get_state returns on an empty store
DefaultState ==
    [ owner_id |-> "", bridge_prover_id |-> "",
      chain_id |-> [i \in 1 .. 32 |-> 0], upgrade_delay_blocks |-> 0 ]

\* the observer record of an invocation: what was called, by whom, how it
\* ended and what it returned.  For submit and meta_call it also holds the
\* fields of the input the handler has read when it ended: the chain id of
\* the signature, the recovered sender, the nonce carried, the shape of the
\* transaction and whether the interpreter ran.
Admission(chain_id, sender, nonce, kind, interpreter, replayed) ==
    [ chain_id |-> chain_id, sender |-> sender, nonce |-> nonce,
      kind |-> kind, interpreter |-> interpreter, replayed |-> replayed ]
NoAdmission == Admission(None, None, None, "", FALSE, FALSE)
Outcome(op, caller, err, out) ==
    [ op |-> op, caller |-> caller, err |-> err, out |-> out,
      adm |-> NoAdmission ]

\* the observer record of a staging: the blob given, the block index of the
\* call and the upgrade_delay_blocks configured at that block
Staging(blob, block, delay) == Some(<< blob, block, delay >>)
announced_blob == Unwrap(announced)[1]
announced_block == Unwrap(announced)[2]
announced_delay == Unwrap(announced)[3]

\* sdk::panic_utf8: the invocation aborts, the host drops its writes
panic_utf8(op, caller, msg) ==
    /\ last' = Outcome(op, caller, msg, None)
    /\ UNCHANGED << store, host, observer >>

Init ==
    /\ state = DefaultState
    /\ staged_code = None
    /\ staged_index = None
    /\ contract_code = 0
    /\ block_index = 0
    /\ nonces = [a \in Addresses |-> 0]
    /\ balances = [a \in Addresses |-> 0]
    /\ codes = {}
    /\ storages = {}
    /\ encoded = << >>
    /\ announced = None
    /\ watch = None
    /\ watch_done = FALSE
    /\ last = Outcome("init", "", "OK", None)

\* ------------------------------------------------------------------------
\* Utility methods
\* ------------------------------------------------------------------------
\* the owner check left out
is_owner_unchecked(caller) == TRUE

\* require_owner_only passes
is_owner(caller) == state.owner_id = caller

\* ------------------------------------------------------------------------
\* Administrative methods
\* ------------------------------------------------------------------------
\* new without the guard on the caller
new_unguarded(caller, args) ==
    IF ~IsSome(args)
    THEN panic_utf8("new", caller, "ERR_ARG_PARSE")
    ELSE /\ state' = Unwrap(args)
         /\ last' = Outcome("new", caller, "OK", None)
         /\ UNCHANGED << staged_code, staged_index, nonces, balances, codes,
                         storages, host, observer >>

\* new that parses its arguments before it checks the caller
new_parsing_first(caller, args) ==
    IF ~IsSome(args)
    THEN panic_utf8("new", caller, "ERR_ARG_PARSE")
    ELSE IF state.owner_id # "" /\ ~is_owner(caller)
    THEN panic_utf8("new", caller, "ERR_NOT_ALLOWED")
    ELSE /\ state' = Unwrap(args)
         /\ last' = Outcome("new", caller, "OK", None)
         /\ UNCHANGED << staged_code, staged_index, nonces, balances, codes,
                         storages, host, observer >>

\* new(): input is either unparsable (args = None) or a NewCallArgs
new(caller, args) ==
    IF state.owner_id # "" /\ ~is_owner(caller)
    THEN panic_utf8("new", caller, "ERR_NOT_ALLOWED")
    ELSE IF ~IsSome(args)
    THEN panic_utf8("new", caller, "ERR_ARG_PARSE")
    ELSE /\ state' = Unwrap(args)
         /\ last' = Outcome("new", caller, "OK", None)
         /\ UNCHANGED << staged_code, staged_index, nonces, balances, codes,
                         storages, host, observer >>

\* u64 addition as the build computes it: the exact sum when it fits, and
\* on overflow either a panic (overflow checks on) or the wrapped sum
Overflows(a, b) == a + b > MaxU64
WrappingAdd(a, b) == (a + b) % (MaxU64 + 1)

get_upgrade_index(caller) ==
    IF ~IsSome(staged_index)
    THEN panic_utf8("get_upgrade_index", caller, "ERR_NO_UPGRADE")
    ELSE LET index == Unwrap(staged_index)
             delay == state.upgrade_delay_blocks
         IN  \/ /\ Overflows(index, delay)
                /\ panic_utf8("get_upgrade_index", caller, "PANIC_OVERFLOW")
             \/ /\ last' = Outcome("get_upgrade_index", caller, "OK",
                                   Some(WrappingAdd(index, delay)))
                /\ UNCHANGED << store, host, observer >>

\* staging that also installs the blob at once
stage_upgrade_installing(caller, input) ==
    IF ~is_owner(caller)
    THEN panic_utf8("stage_upgrade", caller, "ERR_NOT_ALLOWED")
    ELSE /\ staged_code' = Some(input)
         /\ staged_index' = Some(block_index)
         /\ contract_code' = input
         /\ announced' = Staging(input, block_index,
                                 state.upgrade_delay_blocks)
         /\ last' = Outcome("stage_upgrade", caller, "OK", None)
         /\ UNCHANGED << state, nonces, balances, codes, storages,
                         block_index, watch, watch_done, encoded >>

stage_upgrade(caller, input) ==
    IF ~is_owner(caller)
    THEN panic_utf8("stage_upgrade", caller, "ERR_NOT_ALLOWED")
    ELSE /\ staged_code' = Some(input)
         /\ staged_index' = Some(block_index)
         /\ announced' = Staging(input, block_index,
                                 state.upgrade_delay_blocks)
         /\ last' = Outcome("stage_upgrade", caller, "OK", None)
         /\ UNCHANGED << state, nonces, balances, codes, storages, host,
                         watch, watch_done, encoded >>

\* sdk::self_deploy(CODE_KEY): takes the blob out of the store and makes it
\* the code of the contract account; without a blob the host call fails
self_deploy(op, caller) ==
    IF ~IsSome(staged_code)
    THEN panic_utf8(op, caller, "HOST_ERROR")
    ELSE /\ contract_code' = Unwrap(staged_code)
         /\ staged_code' = None
         /\ last' = Outcome(op, caller, "OK", None)
         /\ UNCHANGED << state, staged_index, nonces, balances, codes,
                         storages, block_index, observer >>

\* a deploy that reads a missing staged block index as 0
deploy_upgrade_defaulting(caller) ==
    LET index == IF IsSome(staged_index) THEN Unwrap(staged_index) ELSE 0
        delay == state.upgrade_delay_blocks
    IN  \/ /\ Overflows(index, delay)
           /\ panic_utf8("deploy_upgrade", caller, "PANIC_OVERFLOW")
        \/ IF block_index <= WrappingAdd(index, delay)
           THEN panic_utf8("deploy_upgrade", caller,
                           "ERR_NOT_ALLOWED:TOO_EARLY")
           ELSE self_deploy("deploy_upgrade", caller)

deploy_upgrade(caller) ==
    IF ~IsSome(staged_index)
    THEN panic_utf8("deploy_upgrade", caller, "ERR_UNWRAP")
    ELSE LET index == Unwrap(staged_index)
             delay == state.upgrade_delay_blocks
         IN  \/ /\ Overflows(index, delay)
                /\ panic_utf8("deploy_upgrade", caller, "PANIC_OVERFLOW")
             \/ IF block_index <= WrappingAdd(index, delay)
                THEN panic_utf8("deploy_upgrade", caller,
                                "ERR_NOT_ALLOWED:TOO_EARLY")
                ELSE self_deploy("deploy_upgrade", caller)

\* ------------------------------------------------------------------------
\* Engine: account state and the interpreter
\* ------------------------------------------------------------------------
get_nonce(address) == nonces[address]
get_balance(address) == balances[address]

\* Engine::check_nonce: the next nonce when the transaction's nonce is the
\* account's, an error otherwise; it writes nothing
check_nonce(address, transaction_nonce) ==
    IF transaction_nonce # get_nonce(address)
    THEN None
    ELSE Some(get_nonce(address) + 1)

\* value moved between two balances
move_value(bal, from, to, value) ==
    [a \in DOMAIN bal |->
        bal[a] - (IF a = from THEN value ELSE 0) + (IF a = to THEN value ELSE 0)]

\* Engine::transfer: the balances after the debit and the credit, or an
\* error when the sender cannot pay
transfer(sender, receiver, value) ==
    IF get_balance(sender) < value
    THEN None
    ELSE Some(move_value(balances, sender, receiver, value))

\* Engine::call: the interpreter in call mode.  It may fail; when it
\* succeeds it has advanced the origin's nonce, moved the value and may have
\* changed the storage of a contract that has code
engine_call(origin, contract, value) ==
    {None} \cup
    IF get_balance(origin) < value THEN {}
    ELSE { Some([ nonces |-> [nonces EXCEPT ![origin] = @ + 1],
                  balances |-> move_value(balances, origin, contract, value),
                  codes |-> codes,
                  storages |-> st ]) :
           st \in IF contract \in codes
                  THEN {storages, storages \cup {contract},
                        storages \ {contract}}
                  ELSE {storages} }

\* Engine::deploy_code: the interpreter in create mode.  It may fail; when
\* it succeeds it has advanced the origin's nonce and given code (and the
\* value) to a fresh address
engine_deploy_code(origin, value) ==
    {None} \cup
    IF get_balance(origin) < value THEN {}
    ELSE { Some([ nonces |-> [nonces EXCEPT ![origin] = @ + 1],
                  balances |-> move_value(balances, origin, created, value),
                  codes |-> codes \cup {created},
                  storages |-> storages ]) :
           created \in (Addresses \ codes) \ {origin} }

\* ------------------------------------------------------------------------
\* Mutative methods
\* ------------------------------------------------------------------------
\* an invocation of submit or meta_call that panics
reject(op, msg, adm) ==
    /\ last' = [Outcome(op, "", msg, None) EXCEPT !.adm = adm]
    /\ UNCHANGED << store, host, observer >>

\* sdk_process of the result of an execution: an error panics, so every
\* write of the invocation is dropped; a success returns and commits
sdk_process(op, result, adm) ==
    IF ~IsSome(result)
    THEN reject(op, "ERR_EXECUTION", adm)
    ELSE /\ nonces' = Unwrap(result).nonces
         /\ balances' = Unwrap(result).balances
         /\ codes' = Unwrap(result).codes
         /\ storages' = Unwrap(result).storages
         /\ last' = [Outcome(op, "", "OK", None) EXCEPT !.adm = adm]
         /\ UNCHANGED << state, staged_code, staged_index, host, watch,
                         encoded, announced >>

\* predecessor_address: the EVM address derived from the calling account
predecessor_address(caller) ==
    CASE caller = "alice" -> "a1"
      [] caller = "bob" -> "a2"

\* deploy_code(): the input is the init code; the origin is the caller's
\* address and no value is sent (the model stops an origin whose nonce has
\* passed MaxNonce)
deploy_code(caller) ==
    /\ get_nonce(predecessor_address(caller)) <= MaxNonce
    /\ \E result \in engine_deploy_code(predecessor_address(caller), 0) :
           sdk_process("deploy_code", result, NoAdmission)
    /\ UNCHANGED watch_done

\* call(): input is either unparsable (None) or a FunctionCallArgs; the
\* origin is the caller's address and no value is sent (the model stops an
\* origin whose nonce has passed MaxNonce)
call(caller, input) ==
    IF ~IsSome(input)
    THEN panic_utf8("call", caller, "ERR_ARG_PARSE")
    ELSE /\ get_nonce(predecessor_address(caller)) <= MaxNonce
         /\ \E result \in engine_call(predecessor_address(caller),
                                      Unwrap(input).contract, 0) :
                sdk_process("call", result, NoAdmission)
         /\ UNCHANGED watch_done

\* the chain ids compared by their lowest byte only
chain_id_differs_low_byte(chain_id) ==
    /\ IsSome(chain_id)
    /\ U256FromU64(Unwrap(chain_id))[32] # U256FromBytes(state.chain_id)[32]

\* the chain id of the signature, when there is one, is not the configured
\* chain id (both compared as U256)
chain_id_differs(chain_id) ==
    /\ IsSome(chain_id)
    /\ U256FromU64(Unwrap(chain_id)) # U256FromBytes(state.chain_id)

\* the dispatch of an admitted transaction without the set_nonce of the
\* transfer path
execute_keeping_nonce(input, next_nonce, rp) ==
    LET tx == Unwrap(input)
        sender == Unwrap(tx.sender)
        exec(kind, interp) ==
            Admission(tx.chain_id, tx.sender, Some(tx.nonce), kind, interp, rp)
    IN
    /\ IF IsSome(tx.to)
       THEN IF tx.data = << >>
            THEN LET paid == transfer(sender, Unwrap(tx.to), tx.value)
                     result ==
                        IF ~IsSome(paid) THEN None
                        ELSE Some([ nonces |-> nonces,
                                    balances |-> Unwrap(paid),
                                    codes |-> codes,
                                    storages |-> storages ])
                 IN  sdk_process("submit", result, exec("transfer", FALSE))
            ELSE \E result \in engine_call(sender, Unwrap(tx.to), tx.value) :
                    sdk_process("submit", result, exec("call", TRUE))
       ELSE \E result \in engine_deploy_code(sender, tx.value) :
               sdk_process("submit", result, exec("deploy", TRUE))
    /\ watch_done' = (watch_done \/ (last'.err = "OK" /\ input = watch))

\* the dispatch with the test of the data inverted: a transaction without
\* data goes to the interpreter, one with data is paid out as a transfer
execute_data_test_inverted(input, next_nonce, rp) ==
    LET tx == Unwrap(input)
        sender == Unwrap(tx.sender)
        exec(kind, interp) ==
            Admission(tx.chain_id, tx.sender, Some(tx.nonce), kind, interp, rp)
    IN
    /\ IF IsSome(tx.to)
       THEN IF tx.data # << >>
            THEN LET paid == transfer(sender, Unwrap(tx.to), tx.value)
                     result ==
                        IF ~IsSome(paid) THEN None
                        ELSE Some([ nonces |->
                                      [nonces EXCEPT ![sender] = next_nonce],
                                    balances |-> Unwrap(paid),
                                    codes |-> codes,
                                    storages |-> storages ])
                 IN  sdk_process("submit", result, exec("call", FALSE))
            ELSE \E result \in engine_call(sender, Unwrap(tx.to), tx.value) :
                    sdk_process("submit", result, exec("transfer", TRUE))
       ELSE \E result \in engine_deploy_code(sender, tx.value) :
               sdk_process("submit", result, exec("deploy", TRUE))
    /\ watch_done' = (watch_done \/ (last'.err = "OK" /\ input = watch))

\* the dispatch of an admitted transaction: a transfer (set_nonce, then
\* Engine::transfer), a contract call or a contract deployment, and
\* sdk_process of the result
execute(input, next_nonce, rp) ==
    LET tx == Unwrap(input)
        sender == Unwrap(tx.sender)
        exec(kind, interp) ==
            Admission(tx.chain_id, tx.sender, Some(tx.nonce), kind, interp, rp)
    IN
    /\ IF IsSome(tx.to)
       THEN IF tx.data = << >>
            THEN LET paid == transfer(sender, Unwrap(tx.to), tx.value)
                     result ==
                        IF ~IsSome(paid) THEN None
                        ELSE Some([ nonces |->
                                      [nonces EXCEPT ![sender] = next_nonce],
                                    balances |-> Unwrap(paid),
                                    codes |-> codes,
                                    storages |-> storages ])
                 IN  sdk_process("submit", result, exec("transfer", FALSE))
            ELSE \E result \in engine_call(sender, Unwrap(tx.to), tx.value) :
                    sdk_process("submit", result, exec("call", TRUE))
       ELSE \E result \in engine_deploy_code(sender, tx.value) :
               sdk_process("submit", result, exec("deploy", TRUE))
    /\ watch_done' = (watch_done \/ (last'.err = "OK" /\ input = watch))

\* submit that takes the next nonce from get_nonce and skips check_nonce
submit_unchecked_nonce(input) ==
    IF ~IsSome(input)
    THEN reject("submit", "ERR_INVALID_TX", NoAdmission)
    ELSE
    LET tx == Unwrap(input)
        rp == watch_done /\ input = watch
        seen_chain == Admission(tx.chain_id, None, None, "", FALSE, rp)
    IN
    IF chain_id_differs(tx.chain_id)
    THEN reject("submit", "ERR_INVALID_CHAIN_ID", seen_chain)
    ELSE IF ~IsSome(tx.sender)
    THEN reject("submit", "ERR_INVALID_ECDSA_SIGNATURE", seen_chain)
    ELSE execute(input, get_nonce(Unwrap(tx.sender)) + 1, rp)

\* submit(): input is either undecodable (None) or a signed transaction with
\* the sender its signature recovers to (None for an invalid signature)
submit(input) ==
    IF ~IsSome(input)
    THEN reject("submit", "ERR_INVALID_TX", NoAdmission)
    ELSE
    LET tx == Unwrap(input)
        rp == watch_done /\ input = watch
        seen_chain == Admission(tx.chain_id, None, None, "", FALSE, rp)
        seen_nonce == Admission(tx.chain_id, tx.sender, Some(tx.nonce), "",
                                FALSE, rp)
    IN
    IF chain_id_differs(tx.chain_id)
    THEN reject("submit", "ERR_INVALID_CHAIN_ID", seen_chain)
    ELSE IF ~IsSome(tx.sender)
    THEN reject("submit", "ERR_INVALID_ECDSA_SIGNATURE", seen_chain)
    ELSE
    LET next_nonce == check_nonce(Unwrap(tx.sender), tx.nonce)
    IN
    IF ~IsSome(next_nonce)
    THEN reject("submit", "ERR_INCORRECT_NONCE", seen_nonce)
    ELSE execute(input, Unwrap(next_nonce), rp)

\* meta_call that runs the interpreter without the nonce check
meta_call_unchecked_nonce(input) ==
    IF ~IsSome(input)
    THEN reject("meta_call", "ERR_META_TX_PARSE", NoAdmission)
    ELSE
    LET meta_call_args == Unwrap(input)
        sender == meta_call_args.sender
        exec == Admission(None, Some(sender), Some(meta_call_args.nonce),
                          "call", TRUE, FALSE)
    IN  /\ \E result \in engine_call(sender,
                                      meta_call_args.contract_address,
                                      meta_call_args.value) :
                sdk_process("meta_call", result, exec)
        /\ UNCHANGED watch_done

\* meta_call(): input either fails to parse or authenticate (None) or gives
\* the MetaCallArgs with the recovered sender
meta_call(input) ==
    IF ~IsSome(input)
    THEN reject("meta_call", "ERR_META_TX_PARSE", NoAdmission)
    ELSE
    LET meta_call_args == Unwrap(input)
        sender == meta_call_args.sender
        seen_nonce == Admission(None, Some(sender),
                                Some(meta_call_args.nonce), "", FALSE, FALSE)
        exec == Admission(None, Some(sender), Some(meta_call_args.nonce),
                          "call", TRUE, FALSE)
    IN
    IF ~IsSome(check_nonce(sender, meta_call_args.nonce))
    THEN reject("meta_call", "ERR_INCORRECT_NONCE", seen_nonce)
    ELSE /\ \E result \in engine_call(sender,
                                      meta_call_args.contract_address,
                                      meta_call_args.value) :
                sdk_process("meta_call", result, exec)
         /\ UNCHANGED watch_done

\* ------------------------------------------------------------------------
\* Nonmutative methods
\* ------------------------------------------------------------------------
\* an invocation that returns output and writes nothing
return_output(op, out) ==
    /\ last' = Outcome(op, "", "OK", Some(out))
    /\ UNCHANGED << store, host, observer >>

get_owner == return_output("get_owner", state.owner_id)

get_bridge_provider == return_output("get_bridge_provider", state.bridge_prover_id)

get_chain_id == return_output("get_chain_id", state.chain_id)

\* Engine::view: the interpreter run on a copy of the state whose changes
\* are never applied; it fails or gives the output of the call
engine_view(sender, address, amount) ==
    {None} \cup
    IF get_balance(sender) < amount THEN {}
    ELSE { Some(<< address \in codes, address \in storages >>) }

\* view that runs the call for real and commits what it did
view_committing(input) ==
    IF ~IsSome(input)
    THEN panic_utf8("view", "", "ERR_ARG_PARSE")
    ELSE LET args == Unwrap(input)
         IN  /\ \E result \in engine_call(args.sender, args.address,
                                          args.amount) :
                    sdk_process("view", result, NoAdmission)
             /\ UNCHANGED watch_done

\* view(): input is either unparsable (None) or a ViewCallArgs
view(input) ==
    IF ~IsSome(input)
    THEN panic_utf8("view", "", "ERR_ARG_PARSE")
    ELSE LET args == Unwrap(input)
         IN  \E result \in engine_view(args.sender, args.address, args.amount) :
                IF ~IsSome(result)
                THEN panic_utf8("view", "", "ERR_EXECUTION")
                ELSE return_output("view", Unwrap(result))

\* the code is seen as present or absent
get_code(address) == return_output("get_code", address \in codes)

get_balance_of(address) == return_output("get_balance", get_balance(address))

get_nonce_of(address) == return_output("get_nonce", get_nonce(address))

\* get_storage_at(): input is either unparsable (None) or an address and a
\* slot; the slot is seen as zero or non-zero
get_storage_at(input) ==
    IF ~IsSome(input)
    THEN panic_utf8("get_storage_at", "", "ERR_ARG_PARSE")
    ELSE return_output("get_storage_at", Unwrap(input) \in storages)

\* ------------------------------------------------------------------------
\* Benchmarking methods (feature "evm_bully")
\* ------------------------------------------------------------------------
\* the loop over args.genesis_alloc: Engine::set_balance for each entry in
\* order, so a later entry for the same address wins
RECURSIVE set_genesis_balances(_, _)
set_genesis_balances(bal, alloc) ==
    IF alloc = << >> THEN bal
    ELSE set_genesis_balances(
             [bal EXCEPT ![Head(alloc).address] = Head(alloc).balance],
             Tail(alloc))

begin_chain(caller, args) ==
    IF ~is_owner(caller)
    THEN panic_utf8("begin_chain", caller, "ERR_NOT_ALLOWED")
    ELSE IF ~IsSome(args)
    THEN panic_utf8("begin_chain", caller, "ERR_ARG_PARSE")
    ELSE /\ state' = [state EXCEPT !.chain_id = Unwrap(args).chain_id]
         /\ balances' = set_genesis_balances(balances,
                                             Unwrap(args).genesis_alloc)
         /\ last' = Outcome("begin_chain", caller, "OK",
                            Some(Unwrap(args).chain_id))
         /\ UNCHANGED << staged_code, staged_index, nonces, codes,
                         storages, host, observer >>

begin_block(caller, parsed) ==
    IF ~is_owner(caller)
    THEN panic_utf8("begin_block", caller, "ERR_NOT_ALLOWED")
    ELSE IF ~parsed
    THEN panic_utf8("begin_block", caller, "ERR_ARG_PARSE")
    ELSE /\ last' = Outcome("begin_block", caller, "OK", None)
         /\ UNCHANGED << store, host, observer >>

\* ------------------------------------------------------------------------
\* The host
\* ------------------------------------------------------------------------
\* the chain produces a block; later invocations see a larger block index
advance_block ==
    /\ block_index < MaxU64
    /\ block_index' = block_index + 1
    /\ last' = Outcome("advance_block", "", "OK", None)
    /\ UNCHANGED << store, contract_code, observer >>

\* ------------------------------------------------------------------------
\* Inputs
\* ------------------------------------------------------------------------
NewArgs(owners, chains, delays) ==
    [ owner_id : owners, bridge_prover_id : {"prover"},
      chain_id : chains, upgrade_delay_blocks : delays ]

AccountBalances == [ address : Addresses, balance : 0 .. MaxBalance ]
GenesisAllocs ==
    UNION { [1 .. n -> AccountBalances] : n \in 0 .. MaxAlloc }
BeginChainArgs == [ chain_id : ChainIds, genesis_alloc : GenesisAllocs ]

\* chain ids a signature can embed
TxChainIds == {None, Some(1), Some(2)}
\* addresses transactions are sent to: a2 is the other account for sender
\* a1 and the own account for sender a2
Receivers == {"a2"}
\* values a transaction can carry
Values == {0, 1}
\* decoded signed transactions, each with the sender its signature gives:
\* every transaction with a valid signature, and for each chain id one
\* whose signature recovers to nothing
Txs ==
    [ nonce : 0 .. MaxNonce,
      to : {None} \cup { Some(a) : a \in Receivers }, value : Values,
      data : { << >>, << 1 >> }, chain_id : TxChainIds,
      sender : { Some(a) : a \in Addresses } ]
    \cup
    [ nonce : {0}, to : {None}, value : {0}, data : { << >> },
      chain_id : TxChainIds, sender : {None} ]
MetaCallArgs ==
    [ sender : Addresses, nonce : 0 .. MaxNonce,
      contract_address : Receivers, value : Values ]
\* genesis allocations that fund one account
SingleAllocs ==
    { << ab >> : ab \in [ address : Addresses, balance : Values ] }

\* ------------------------------------------------------------------------
\* The upgrade state machine (default build): every delay, one chain id
\* ------------------------------------------------------------------------
NextUpgrade ==
    \/ \E c \in AccountIds :
         \E a \in NewArgs(OwnerIds, {U256FromU64(1)}, U64) : new(c, Some(a))
    \/ \E c \in AccountIds : new(c, None)
    \/ \E c \in AccountIds : get_upgrade_index(c)
    \/ \E c \in AccountIds : \E b \in CodeBlobs : stage_upgrade(c, b)
    \/ \E c \in AccountIds : deploy_upgrade(c)
    \/ advance_block

SpecUpgrade == Init /\ [][NextUpgrade]_vars

\* ------------------------------------------------------------------------
\* The owner-gated methods (build with feature "evm_bully")
\* ------------------------------------------------------------------------
NextOwner ==
    \/ \E c \in AccountIds :
         \E a \in NewArgs(OwnerIds, ChainIds, {0, MaxU64}) : new(c, Some(a))
    \/ \E c \in AccountIds : new(c, None)
    \/ \E c \in AccountIds : stage_upgrade(c, MaxBlob)
    \/ \E c \in AccountIds : \E a \in BeginChainArgs : begin_chain(c, Some(a))
    \/ \E c \in AccountIds : begin_chain(c, None)
    \/ \E c \in AccountIds : \E p \in BOOLEAN : begin_block(c, p)
    \/ advance_block

SpecOwner == Init /\ [][NextOwner]_vars

\* ------------------------------------------------------------------------
\* The admission pipeline: one owner, both chain ids, funded by begin_chain
\* ------------------------------------------------------------------------
NextAdmission ==
    \/ \E a \in NewArgs({"alice"}, ChainIds, {0}) : new("alice", Some(a))
    \/ \E a \in [ chain_id : ChainIds, genesis_alloc : SingleAllocs ] :
         begin_chain("alice", Some(a))
    \/ \E t \in Txs : submit(Some(t))
    \/ submit(None)
    \/ \E m \in MetaCallArgs : meta_call(Some(m))
    \/ meta_call(None)

SpecAdmission == Init /\ [][NextAdmission]_vars

\* ------------------------------------------------------------------------
\* Replay: one signed transaction of sender a1 is followed through its
\* first success and every later submission of the same bytes
\* ------------------------------------------------------------------------
WatchedTxs ==
    { t \in Txs : /\ t.sender = Some("a1")
                  /\ t.value = 0 }
\* the other transactions submitted in between
OtherTxs ==
    { t \in Txs : /\ IsSome(t.sender)
                  /\ t.chain_id = None
                  /\ t.value = 0
                  /\ t.to = Some("a2") }
OtherMetaCallArgs ==
    { m \in MetaCallArgs : m.value = 0 }

InitReplay ==
    /\ state = DefaultState
    /\ staged_code = None
    /\ staged_index = None
    /\ contract_code = 0
    /\ block_index = 0
    /\ nonces = [a \in Addresses |-> 0]
    /\ balances = [a \in Addresses |-> 0]
    /\ codes = {}
    /\ storages = {}
    /\ encoded = << >>
    /\ announced = None
    /\ watch \in { Some(t) : t \in WatchedTxs }
    /\ watch_done = FALSE
    /\ last = Outcome("init", "", "OK", None)

NextReplay ==
    \/ \E a \in NewArgs({"alice"}, ChainIds, {0}) : new("alice", Some(a))
    \/ submit(watch)
    \/ \E t \in OtherTxs : submit(Some(t))
    \/ \E m \in OtherMetaCallArgs : meta_call(Some(m))

SpecReplay == InitReplay /\ [][NextReplay]_vars

\* ------------------------------------------------------------------------
\* The read operations, among operations that change every part of the store
\* ------------------------------------------------------------------------
ViewCallArgs == [ sender : Addresses, address : Receivers, amount : Values ]
\* signed transactions of sender a1 without a chain id
PlainTxs == { t \in Txs : t.sender = Some("a1") /\ t.chain_id = None }

NextViews ==
    \/ \E a \in NewArgs({"alice"}, {U256FromU64(1)}, {0, MaxU64}) :
         new("alice", Some(a))
    \/ \E a \in [ chain_id : {U256FromU64(1)}, genesis_alloc : SingleAllocs ] :
         begin_chain("alice", Some(a))
    \/ stage_upgrade("alice", MaxBlob)
    \/ advance_block
    \/ \E t \in PlainTxs : submit(Some(t))
    \/ get_owner
    \/ get_bridge_provider
    \/ get_chain_id
    \/ \E c \in AccountIds : get_upgrade_index(c)
    \/ \E a \in ViewCallArgs : view(Some(a))
    \/ view(None)
    \/ \E a \in Addresses : get_code(a)
    \/ \E a \in Addresses : get_balance_of(a)
    \/ \E a \in Addresses : get_nonce_of(a)
    \/ \E a \in Addresses : get_storage_at(Some(a))
    \/ get_storage_at(None)

SpecViews == Init /\ [][NextViews]_vars

\* ------------------------------------------------------------------------
\* The default build: every operation it exposes
\* ------------------------------------------------------------------------
FunctionCallArgs == [ contract : Receivers ]
\* configurations given to new: every owner with chain id 1 and no delay,
\* and owner alice with the other chain ids and the longest delay
ConfigArgs ==
    NewArgs(OwnerIds, {U256FromU64(1)}, {0})
        \cup NewArgs({"alice"}, ChainIds \ {U256FromU64(1)}, {MaxU64})
\* no account of the default build is funded: transactions carry no value
UnpaidTxs == { t \in PlainTxs : t.value = 0 }
\* the EVM operations all originate from address a1, the address of alice
UnpaidMetaCallArgs ==
    { m \in MetaCallArgs : m.sender = "a1" /\ m.value = 0 }

NextConfig ==
    \/ \E c \in AccountIds : \E a \in ConfigArgs : new(c, Some(a))
    \/ \E c \in AccountIds : new(c, None)
    \/ \E c \in AccountIds : stage_upgrade(c, MaxBlob)
    \/ \E c \in AccountIds : deploy_upgrade(c)
    \/ advance_block
    \/ \E t \in UnpaidTxs : submit(Some(t))
    \/ \E m \in UnpaidMetaCallArgs : meta_call(Some(m))
    \/ \E a \in FunctionCallArgs : call("alice", Some(a))
    \/ \E c \in AccountIds : call(c, None)
    \/ deploy_code("alice")
    \/ get_owner
    \/ get_chain_id

SpecConfig == Init /\ [][NextConfig]_vars

\* ------------------------------------------------------------------------
\* The storage key codec (src/src/storage.rs)
\* ------------------------------------------------------------------------
\* VersionPrefix::V1 as u8
V1 == 7

KeyPrefixes ==
    { "Config", "Nonce", "Balance", "Code", "Storage",
      "RelayerEvmAddressMap", "EthConnector" }

\* `prefix as u8`
KeyPrefixU8(prefix) ==
    CASE prefix = "Config" -> 0
      [] prefix = "Nonce" -> 1
      [] prefix = "Balance" -> 2
      [] prefix = "Code" -> 3
      [] prefix = "Storage" -> 4
      [] prefix = "RelayerEvmAddressMap" -> 5
      [] prefix = "EthConnector" -> 6

\* KeyPrefix::from(u8): the category of a tag (any other value is
\* unreachable!())
KeyPrefixFromU8(value) ==
    CASE value = 0 -> "Config"
      [] value = 1 -> "Nonce"
      [] value = 2 -> "Balance"
      [] value = 3 -> "Code"
      [] value = 4 -> "Storage"
      [] value = 5 -> "RelayerEvmAddressMap"
      [] value = 6 -> "EthConnector"

\* u32::from_le_bytes
from_le_bytes(b) == b[1] + 256 * b[2] + 65536 * b[3] + 16777216 * b[4]

\* the generation written most significant byte first
to_be_bytes(n) == [i \in 1 .. 4 |-> (n \div (256 ^ (4 - i))) % 256]

\* u32::to_le_bytes
to_le_bytes(n) == [i \in 1 .. 4 |-> (n \div (256 ^ (i - 1))) % 256]

\* the generation cut to its lowest byte
to_le_bytes_low(n) == [i \in 1 .. 4 |-> n % 256]

\* the key without its category byte
bytes_to_key_untagged(prefix, bytes) == << V1 >> \o bytes

bytes_to_key(prefix, bytes) == << V1 >> \o << KeyPrefixU8(prefix) >> \o bytes

address_to_key(prefix, address) ==
    [i \in 1 .. 22 |->
        IF i = 1 THEN V1
        ELSE IF i = 2 THEN KeyPrefixU8(prefix)
        ELSE address[i - 2]]

storage_to_key(address, key) ==
    [i \in 1 .. 54 |->
        IF i = 1 THEN V1
        ELSE IF i = 2 THEN KeyPrefixU8("Storage")
        ELSE IF i <= 22 THEN address[i - 2]
        ELSE key[i - 22]]

\* the nonced key with the generation cut to one byte
storage_to_key_nonced_low(address, storage_nonce, key) ==
    [i \in 1 .. 58 |->
        IF i = 1 THEN V1
        ELSE IF i = 2 THEN KeyPrefixU8("Storage")
        ELSE IF i <= 22 THEN address[i - 2]
        ELSE IF i <= 26 THEN to_le_bytes_low(storage_nonce)[i - 22]
        ELSE key[i - 26]]

storage_to_key_nonced(address, storage_nonce, key) ==
    [i \in 1 .. 58 |->
        IF i = 1 THEN V1
        ELSE IF i = 2 THEN KeyPrefixU8("Storage")
        ELSE IF i <= 22 THEN address[i - 2]
        ELSE IF i <= 26 THEN to_le_bytes(storage_nonce)[i - 22]
        ELSE key[i - 26]]

\* inputs of the codec: 20-byte addresses, 32-byte slots, u32 generations
\* and byte strings whose bytes look like version and category bytes
Address20s ==
    { [i \in 1 .. 20 |-> 0],
      [i \in 1 .. 20 |-> IF i = 1 THEN 4 ELSE 0],
      [i \in 1 .. 20 |-> IF i = 20 THEN 1 ELSE 0] }
H256s ==
    { [i \in 1 .. 32 |-> 0],
      [i \in 1 .. 32 |-> IF i = 1 THEN 1 ELSE 0],
      [i \in 1 .. 32 |-> IF i = 32 THEN 1 ELSE 0] }
Generations == { 0, 1, 256, 16777216 }
ByteStrings == UNION { [1 .. n -> {4, 7}] : n \in 0 .. MaxBytes }

\* one use of the codec: the function, the category and the suffix it was
\* given, and the key it produced
Encoding(fn, prefix, suffix, key) == << fn, prefix, suffix, key >>

fn_of(e) == e[1]

prefix_of(e) == e[2]

suffix_of(e) == e[3]

key_of(e) == e[4]

\* the codec was used: keep this use and the one before it
remember(e) ==
    /\ encoded' = IF Len(encoded) < 2 THEN Append(encoded, e)
                  ELSE << encoded[2], e >>
    /\ UNCHANGED << store, host, watch, watch_done, announced, last >>

call_bytes_to_key ==
    \E p \in KeyPrefixes : \E b \in ByteStrings :
        remember(Encoding("bytes_to_key", p, << b >>, bytes_to_key(p, b)))

call_address_to_key ==
    \E p \in KeyPrefixes : \E a \in Address20s :
        remember(Encoding("address_to_key", p, << a >>, address_to_key(p, a)))

call_storage_to_key ==
    \E a \in Address20s : \E k \in H256s :
        remember(Encoding("storage_to_key", "Storage", << a, k >>,
                          storage_to_key(a, k)))

call_storage_to_key_nonced ==
    \E a \in Address20s : \E g \in Generations : \E k \in H256s :
        remember(Encoding("storage_to_key_nonced", "Storage", << a, g, k >>,
                          storage_to_key_nonced(a, g, k)))

NextKeys ==
    \/ call_bytes_to_key
    \/ call_address_to_key
    \/ call_storage_to_key
    \/ call_storage_to_key_nonced

SpecKeys == Init /\ [][NextKeys]_vars

\* ------------------------------------------------------------------------
\* Properties of the upgrade state machine
\* ------------------------------------------------------------------------
OwnerGated == {"stage_upgrade", "new", "begin_chain", "begin_block"}

\* C1: with a record staged at staged_at and delay D, a deploy_upgrade at a
\* block index <= staged_at + D is rejected with ERR_NOT_ALLOWED:TOO_EARLY
\* and keeps the running code; at a later block index it succeeds and the
\* running code becomes the staged blob.
C1_UpgradeDelayEnforced ==
    [][ ( /\ last'.op = "deploy_upgrade"
          /\ IsSome(staged_index)
          /\ IsSome(staged_code) )
        => IF block_index <= Unwrap(staged_index) + state.upgrade_delay_blocks
           THEN /\ last'.err = "ERR_NOT_ALLOWED:TOO_EARLY"
                /\ contract_code' = contract_code
           ELSE /\ last'.err = "OK"
                /\ contract_code' = Unwrap(staged_code) ]_vars

\* C2: an owner-gated method called by an account other than the configured
\* owner is rejected with ERR_NOT_ALLOWED and the store is unchanged.
C2_OwnerGating ==
    [][ ( /\ last'.op \in OwnerGated
          /\ last'.caller # state.owner_id
          /\ (last'.op = "new" => state.owner_id # "") )
        => /\ last'.err = "ERR_NOT_ALLOWED"
           /\ store' = store ]_vars

\* a non-owner was turned away from begin_chain while balances were set
C2_Witness ==
    /\ last.op = "begin_chain"
    /\ last.err = "ERR_NOT_ALLOWED"
    /\ state.owner_id # ""
    /\ last.caller # state.owner_id
    /\ \E a \in Addresses : balances[a] > 0
    /\ IsSome(staged_index)

C4_DeployConsumesRecord ==
    [][ ( /\ last.op = "deploy_upgrade"
          /\ last.err = "OK" )
        => /\ ~IsSome(staged_index)
           /\ (last'.op = "get_upgrade_index" => last'.err = "ERR_NO_UPGRADE")
           /\ (last'.op = "deploy_upgrade" => last'.err = "ERR_UNWRAP") ]_vars

\* C15: while owner_id is empty, new is open to every caller; once owner_id
\* is set, new is open to the owner only and any other caller is rejected
\* with ERR_NOT_ALLOWED, whether or not its arguments parse.  A new that is
\* not rejected for its caller either stores a supplied configuration or,
\* with unparsable arguments, fails and changes nothing.
C15_InitializationGuard ==
    [][ last'.op = "new"
        => IF state.owner_id = "" \/ last'.caller = state.owner_id
           THEN \/ /\ last'.err = "OK"
                   /\ state' \in NewArgs(OwnerIds, ChainIds, U64)
                   /\ << staged_code', staged_index', nonces', balances',
                         codes', storages' >>
                        = << staged_code, staged_index, nonces, balances,
                             codes, storages >>
                \/ /\ last'.err = "ERR_ARG_PARSE"
                   /\ store' = store
           ELSE /\ last'.err = "ERR_NOT_ALLOWED"
                /\ store' = store ]_vars

\* new was refused to an account that is not the owner, on a contract whose
\* owner had configured the longest delay
C15_Witness ==
    /\ last.op = "new"
    /\ last.err = "ERR_NOT_ALLOWED"
    /\ state.owner_id # ""
    /\ last.caller # state.owner_id
    /\ state.upgrade_delay_blocks = MaxU64

\* the configuration has been stored by a new that succeeded (every
\* configuration given to new names a bridge prover; the default has none)
Initialized == state # DefaultState

\* C16 (as stated): once new has succeeded, no operation of the default
\* build changes owner_id, chain_id or upgrade_delay_blocks.
C16_ConfigReadOnly ==
    [][ Initialized
        => << state'.owner_id, state'.chain_id, state'.upgrade_delay_blocks >>
             = << state.owner_id, state.chain_id,
                  state.upgrade_delay_blocks >> ]_vars

\* C16 (amended): the configuration is changed by nothing but a new that
\* succeeds, and once an owner is set such a new is called by that owner;
\* no other operation of the default build changes it.
C16_ConfigChangedOnlyByOwnersNew ==
    [][ state' # state
        => /\ last'.op = "new"
           /\ last'.err = "OK"
           /\ state.owner_id # "" => last'.caller = state.owner_id ]_vars

\* new has succeeded on a contract that was configured before (an owner
\* had staged an upgrade) and that holds EVM accounts
C16_Witness ==
    /\ last.op = "new"
    /\ last.err = "OK"
    /\ IsSome(staged_index)
    /\ codes # {}

\* C17: for every successful deploy_upgrade whose delay comparison was
\* computed without overflow, the blob that becomes the running code was
\* staged more than D blocks earlier, D being the upgrade_delay_blocks that
\* was configured when the blob was staged.
C17_ObservationWindow ==
    [][ ( /\ last'.op = "deploy_upgrade"
          /\ last'.err = "OK"
          /\ ~Overflows(Unwrap(staged_index), state.upgrade_delay_blocks) )
        => block_index > Unwrap(staged_index) + announced_delay ]_vars

\* C18: staging is last-write-wins.  After the owner's latest staging of
\* blob c2 at block b2 the staging record is exactly {c2, b2}, whatever was
\* staged before; until the next successful deploy, a deploy_upgrade at a
\* block index <= b2 + D is rejected with ERR_NOT_ALLOWED:TOO_EARLY and a
\* deploy_upgrade at a later block index succeeds and installs c2.
C18_LastWriteWins ==
    [][ /\ ( /\ last'.op = "stage_upgrade"
             /\ last'.err = "OK" )
           => /\ staged_code' = Some(announced_blob')
              /\ staged_index' = Some(announced_block')
        /\ ( /\ last'.op = "deploy_upgrade"
             /\ IsSome(announced)
             /\ IsSome(staged_code) )
           => IF block_index <= announced_block + state.upgrade_delay_blocks
              THEN /\ last'.err = "ERR_NOT_ALLOWED:TOO_EARLY"
                   /\ contract_code' = contract_code
              ELSE /\ last'.err = "OK"
                   /\ contract_code' = announced_blob ]_vars

\* C19: as long as no upgrade has been staged, deploy_upgrade is rejected
\* with ERR_UNWRAP and get_upgrade_index with ERR_NO_UPGRADE, at every block
\* index and for every caller, and the store, the running code and the block
\* index are unchanged.
C19_NothingStaged ==
    [][ ~IsSome(announced)
        => /\ last'.op = "deploy_upgrade"
              => /\ last'.err = "ERR_UNWRAP"
                 /\ store' = store
                 /\ host' = host
           /\ last'.op = "get_upgrade_index"
              => /\ last'.err = "ERR_NO_UPGRADE"
                 /\ store' = store
                 /\ host' = host ]_vars

\* deploy_upgrade was refused on a configured contract on which nothing was
\* ever staged, at a block index past the configured delay
C19_Witness ==
    /\ ~IsSome(announced)
    /\ last.op = "deploy_upgrade"
    /\ last.err = "ERR_UNWRAP"
    /\ state.owner_id # ""
    /\ block_index > state.upgrade_delay_blocks

\* C21: in every reachable state a staged block index is stored (under
\* CODE_STAGE_KEY) only if a staged code blob is stored (under CODE_KEY);
\* a deploy_upgrade that gets past its timing check therefore has a blob to
\* deploy, and the two entries are only ever written together, by a
\* stage_upgrade of the owner.
C21_IndexOnlyWithBlob ==
    [][ /\ IsSome(staged_index) => IsSome(staged_code)
        /\ IsSome(staged_index') => IsSome(staged_code')
        /\ ( /\ last'.op = "deploy_upgrade"
             /\ last'.err \notin {"ERR_UNWRAP", "ERR_NOT_ALLOWED:TOO_EARLY",
                                  "PANIC_OVERFLOW"} )
           => IsSome(staged_code)
        /\ ( \/ IsSome(staged_index') /\ staged_index' # staged_index
             \/ IsSome(staged_code') /\ staged_code' # staged_code )
           => /\ last'.op = "stage_upgrade"
              /\ last'.err = "OK"
              /\ last'.caller = state.owner_id
              /\ staged_index' = Some(block_index)
              /\ IsSome(staged_code') ]_vars

\* C22: the delay comparison is exact for all 64-bit values.  A
\* deploy_upgrade gets past the timing check only if the block index is
\* greater than the true sum staged_at + upgrade_delay_blocks, and a
\* successful get_upgrade_index returns that true sum; the sum never wraps.
C22_DelayComparisonExact ==
    [][ /\ ( /\ last'.op = "deploy_upgrade"
             /\ last'.err \in {"OK", "HOST_ERROR"} )
           => block_index
                  > Unwrap(staged_index) + state.upgrade_delay_blocks
        /\ ( /\ last'.op = "get_upgrade_index"
             /\ last'.err = "OK" )
           => last'.out = Some(Unwrap(staged_index)
                                   + state.upgrade_delay_blocks) ]_vars

\* ------------------------------------------------------------------------
\* Properties of the admission pipeline
\* ------------------------------------------------------------------------
\* the invocation passed the nonce check: its transaction was admitted
Admitted(l) == l.adm.kind # ""

\* C7: every transaction admitted from an address, through submit (as a
\* transfer, a call or a deployment) or through meta_call, raises the nonce
\* of that address by exactly 1, nothing else changes a nonce and no nonce
\* ever decreases; so after N admissions from A, get_nonce(A) = N.
C7_NonceCountsAdmissions ==
    [][ /\ \A a \in Addresses : nonces'[a] >= nonces[a]
        /\ Admitted(last') =>
             nonces' = [nonces EXCEPT ![Unwrap(last'.adm.sender)] = @ + 1]
        /\ ~Admitted(last') => nonces' = nonces ]_vars

\* C8: in submit and in meta_call, when the nonce carried by the
\* authenticated transaction is not the sender's stored nonce, the invocation
\* is rejected by the nonce check, nothing is written and the interpreter
\* is not invoked.
C8_NonceMismatchRejected ==
    [][ ( /\ last'.op \in {"submit", "meta_call"}
          /\ IsSome(last'.adm.nonce)
          /\ Unwrap(last'.adm.nonce) # nonces[Unwrap(last'.adm.sender)] )
        => /\ last'.err = "ERR_INCORRECT_NONCE"
           /\ store' = store
           /\ ~Admitted(last')
           /\ ~last'.adm.interpreter ]_vars

\* submit has turned away a transaction whose nonce was already used, in a
\* state where the sender holds a balance
C8_Witness ==
    /\ last.op = "submit"
    /\ last.err = "ERR_INCORRECT_NONCE"
    /\ Unwrap(last.adm.nonce) < nonces[Unwrap(last.adm.sender)]
    /\ balances[Unwrap(last.adm.sender)] > 0

\* C9 (as stated): once a signed transaction has been submitted with
\* success, every later submission of the same bytes fails with a nonce
\* error and has no effect on the state.
C9_ReplayFailsWithNonceError ==
    [][ last'.adm.replayed
        => /\ last'.err = "ERR_INCORRECT_NONCE"
           /\ store' = store ]_vars

\* C9 (amended): once a signed transaction has been submitted with success,
\* every later submission of the same bytes is rejected and has no effect on
\* the state; the rejection is a nonce error, unless the configured chain id
\* was changed in between and no longer is the one of the signature, in
\* which case it is ERR_INVALID_CHAIN_ID.
C9_ReplayRejected ==
    [][ last'.adm.replayed
        => /\ store' = store
           /\ last'.err = IF /\ IsSome(last'.adm.chain_id)
                             /\ U256FromU64(Unwrap(last'.adm.chain_id))
                                    # state.chain_id
                          THEN "ERR_INVALID_CHAIN_ID"
                          ELSE "ERR_INCORRECT_NONCE" ]_vars

\* the followed transaction succeeded, other transactions were admitted and
\* its second submission met the nonce check
C9_Witness ==
    /\ watch_done
    /\ last.op = "submit"
    /\ last.adm.replayed
    /\ last.err = "ERR_INCORRECT_NONCE"
    /\ nonces["a1"] > Unwrap(watch).nonce + 1

\* C10: a submitted transaction whose signature embeds a chain id other
\* than the configured one is rejected with ERR_INVALID_CHAIN_ID and nothing
\* is written, whatever its signature and its nonce.
C10_ChainIdIsolation ==
    [][ ( /\ last'.op = "submit"
          /\ IsSome(last'.adm.chain_id)
          /\ U256FromU64(Unwrap(last'.adm.chain_id)) # state.chain_id )
        => /\ last'.err = "ERR_INVALID_CHAIN_ID"
           /\ store' = store
           /\ ~Admitted(last') ]_vars

\* a transaction signed for chain 1 was turned away by a contract whose
\* chain id has the same lowest byte, while accounts hold nonces and funds
C10_Witness ==
    /\ last.op = "submit"
    /\ last.err = "ERR_INVALID_CHAIN_ID"
    /\ last.adm.chain_id = Some(1)
    /\ state.chain_id[32] = 1
    /\ \E a \in Addresses : nonces[a] > 0 /\ balances[a] > 0

\* the errors of the admission steps: decoding, chain-id check, sender
\* authentication and nonce check
AdmissionErrors ==
    { "ERR_INVALID_TX", "ERR_META_TX_PARSE", "ERR_INVALID_CHAIN_ID",
      "ERR_INVALID_ECDSA_SIGNATURE", "ERR_INCORRECT_NONCE" }

\* C11: within one submit or meta_call, the store is written or the
\* interpreter called only after decoding, the chain-id check (submit),
\* sender authentication and the nonce check have all passed on the store as
\* it was; an invocation that fails at one of these steps leaves the store
\* as it was and has not called the interpreter.
C11_ChecksBeforeEffects ==
    [][ last'.op \in {"submit", "meta_call"}
        => /\ ( store' # store \/ last'.adm.interpreter )
              => /\ Admitted(last')
                 /\ IsSome(last'.adm.sender)
                 /\ last'.adm.nonce
                       = Some(nonces[Unwrap(last'.adm.sender)])
                 /\ IsSome(last'.adm.chain_id)
                       => U256FromU64(Unwrap(last'.adm.chain_id))
                            = state.chain_id
           /\ last'.err \in AdmissionErrors
              => /\ store' = store
                 /\ ~last'.adm.interpreter ]_vars

\* a transaction with an invalid signature was turned away while an account
\* held a nonce and funds
C11_Witness ==
    /\ last.op = "submit"
    /\ last.err = "ERR_INVALID_ECDSA_SIGNATURE"
    /\ \E a \in Addresses : nonces[a] > 0 /\ balances[a] > 0

\* C12: when the execution of an admitted transaction (transfer, call or
\* deployment) fails, the nonce increment is kept: after the invocation the
\* sender's stored nonce is one higher than before.
C12_FailureKeepsNonce ==
    [][ ( /\ Admitted(last')
          /\ last'.err = "ERR_EXECUTION" )
        => nonces'[Unwrap(last'.adm.sender)]
             = nonces[Unwrap(last'.adm.sender)] + 1 ]_vars

ReadOps ==
    { "get_code", "get_balance", "get_nonce", "get_storage_at", "view",
      "get_owner", "get_chain_id", "get_bridge_provider",
      "get_upgrade_index" }

\* C14: a read operation, whatever its input and its outcome, leaves every
\* entry of the store, the running code and the block index as they were.
C14_ReadsChangeNothing ==
    [][ last'.op \in ReadOps
        => /\ store' = store
           /\ host' = host ]_vars

\* view has run a call with value for a sender that can pay it, to an
\* address that holds code
C14_Witness ==
    /\ last.op = "view"
    /\ last.err = "OK"
    /\ last.out = Some(<< TRUE, TRUE >>)
    /\ \E a \in Addresses : balances[a] > 0 /\ nonces[a] > 0
    /\ IsSome(staged_index)

\* ------------------------------------------------------------------------
\* Properties of the key codec
\* ------------------------------------------------------------------------
FixedLayout == {"address_to_key", "storage_to_key", "storage_to_key_nonced"}

\* C5: keys produced for two different categories are never equal,
\* whichever of the four functions produced them and whatever the suffixes.
C5_KeyDisjointness ==
    \A i, j \in DOMAIN encoded :
        prefix_of(encoded[i]) # prefix_of(encoded[j])
            => key_of(encoded[i]) # key_of(encoded[j])

\* an address key of one category and a byte-string key of another
\* category were produced
C5_Witness ==
    /\ Len(encoded) = 2
    /\ prefix_of(encoded[1]) # prefix_of(encoded[2])
    /\ fn_of(encoded[1]) = "address_to_key"
    /\ fn_of(encoded[2]) = "bytes_to_key"
    /\ suffix_of(encoded[2])[1] = << 4, 7 >>

\* C6: the encoding is injective: address_to_key in (category, address),
\* storage_to_key in (address, slot), storage_to_key_nonced in (address,
\* generation, slot), bytes_to_key in (category, bytes), and keys of two
\* different fixed-layout functions are never equal.
C6_KeyInjective ==
    \A i, j \in DOMAIN encoded :
        /\ ( /\ fn_of(encoded[i]) = fn_of(encoded[j])
             /\ << prefix_of(encoded[i]), suffix_of(encoded[i]) >>
                    # << prefix_of(encoded[j]), suffix_of(encoded[j]) >> )
           => key_of(encoded[i]) # key_of(encoded[j])
        /\ ( /\ fn_of(encoded[i]) # fn_of(encoded[j])
             /\ fn_of(encoded[i]) \in FixedLayout
             /\ fn_of(encoded[j]) \in FixedLayout )
           => key_of(encoded[i]) # key_of(encoded[j])

\* two nonced storage keys that differ in the generation only, by a
\* generation whose lowest byte is the same
C6_Witness ==
    /\ Len(encoded) = 2
    /\ fn_of(encoded[1]) = "storage_to_key_nonced"
    /\ fn_of(encoded[2]) = "storage_to_key_nonced"
    /\ suffix_of(encoded[1])[1] = suffix_of(encoded[2])[1]
    /\ suffix_of(encoded[1])[3] = suffix_of(encoded[2])[3]
    /\ suffix_of(encoded[1])[2] = 0
    /\ suffix_of(encoded[2])[2] = 256

\* C20: every key starts with the version byte 0x07 and the category tag,
\* from which KeyPrefix::from recovers the category, followed by the suffix:
\* address_to_key gives 22 bytes with the address at 2..22, storage_to_key
\* 54 bytes with the slot at 22..54, storage_to_key_nonced 58 bytes with the
\* generation as 4 little-endian bytes at 22..26 and the slot at 26..58.
C20_KeyLayout ==
    \A i \in DOMAIN encoded :
        LET fn == fn_of(encoded[i])
            suffix == suffix_of(encoded[i])
            key == key_of(encoded[i])
        IN  /\ key[1] = 7
            /\ KeyPrefixFromU8(key[2]) = prefix_of(encoded[i])
            /\ fn = "bytes_to_key"
                  => SubSeq(key, 3, Len(key)) = suffix[1]
            /\ fn = "address_to_key"
                  => /\ Len(key) = 22
                     /\ SubSeq(key, 3, 22) = suffix[1]
            /\ fn = "storage_to_key"
                  => /\ Len(key) = 54
                     /\ KeyPrefixFromU8(key[2]) = "Storage"
                     /\ SubSeq(key, 3, 22) = suffix[1]
                     /\ SubSeq(key, 23, 54) = suffix[2]
            /\ fn = "storage_to_key_nonced"
                  => /\ Len(key) = 58
                     /\ KeyPrefixFromU8(key[2]) = "Storage"
                     /\ SubSeq(key, 3, 22) = suffix[1]
                     /\ from_le_bytes(SubSeq(key, 23, 26)) = suffix[2]
                     /\ SubSeq(key, 27, 58) = suffix[3]

\* a nonced storage key was produced for a generation above 255 and a slot
\* that is not zero, after a key of the last category
C20_Witness ==
    /\ Len(encoded) = 2
    /\ prefix_of(encoded[1]) = "EthConnector"
    /\ fn_of(encoded[2]) = "storage_to_key_nonced"
    /\ suffix_of(encoded[2])[2] > 255
    /\ suffix_of(encoded[2])[3][32] = 1
====
